---- MODULE Spec2Model ----
(***************************************************************************)
(* Model of snsim/utils.py: class GridData (interpolation over a uniform   *)
(* 2-D grid).  The object is built once, by __init__ or by the classmethod *)
(* loadtxt, and is then only read by y(), x0() and x1().                    *)
(*                                                                         *)
(* Numbers: the code computes in IEEE doubles; the model computes in exact *)
(* rationals <<num, den>> (den > 0, lowest terms), so rounding is left out *)
(* and every equality below is an equality of exact values.                *)
(* Sequences are 1-based here and 0-based in the code.                     *)
(***************************************************************************)
EXTENDS Integers, Sequences, FiniteSets, TLC

(* ---------------------------------------------------------------- bounds *)
MaxRows == 2
MaxCols == 2
MaxCells == 4
MaxLines == 3

\* Python's None where a float is expected (x0_current before the first line).
NoneF == -1

MaxKey == MaxRows
Keys == 0..MaxKey
\* The sample values: two levels, enough to tell rows and columns apart.
YVals == {0, 10}
\* x0 values a caller may ask for: below, on, between and above the keys.
X0Queries == -1..(MaxKey + 1)
\* The native x1 samples of a row of m columns: a uniform axis 0, 2, 4, ...
X1Native(m) == [j \in 1..m |-> 2 * (j - 1)]
\* x1 values a caller may ask for: below, on, between and above the samples.
X1Points == -1..(2 * MaxCols - 1)

Formats == {"singleval", "bogus", "multival"}

(* ------------------------------------------------------- exact arithmetic *)
Abs(n) == IF n < 0 THEN -n ELSE n

RECURSIVE GCD(_, _)
GCD(a, b) == IF b = 0 THEN a ELSE GCD(b, a % b)

Norm(n, d) ==
    LET s == IF d < 0 THEN -1 ELSE 1
        g == GCD(Abs(n), Abs(d))
    IN  <<(s * n) \div g, (s * d) \div g>>

R(n) == <<n, 1>>
RAdd(a, b) == Norm(a[1] * b[2] + b[1] * a[2], a[2] * b[2])
RSub(a, b) == Norm(a[1] * b[2] - b[1] * a[2], a[2] * b[2])
RMul(a, b) == Norm(a[1] * b[1], a[2] * b[2])
RSeq(s) == [k \in 1..Len(s) |-> R(s[k])]

(* ------------------------------------------------------------- outcomes *)
\* What a call gives back: values, or the exception it raised (msg: the message's
\* text and the values formatted into it).  branch names the return statement of
\* y() that ended the call, evals counts the row interpolants it called.
Ok(v, br, n) == [kind |-> "ok", msg |-> <<>>, val |-> v, branch |-> br, evals |-> n]
Raise(k, m, br, n) == [kind |-> k, msg |-> m, val |-> <<>>, branch |-> br, evals |-> n]
NoResult == [kind |-> "none", msg |-> <<>>, val |-> <<>>, branch |-> "", evals |-> 0]

VARIABLES
    phase,        \* "new": no object yet; "built": a GridData exists; "failed": the constructor call raised
    self_x0,      \* self._x0
    self_x1,      \* self._x1 as an option: <<>> is None, <<s>> is the array s
    self_y,       \* self._y
    self_yfuncs,  \* len(self._yfuncs)
    loop_i,       \* the cell of __init__'s loop variable i that every lambda closes over
    y_is_array,   \* whether __init__'s argument y (which the lambdas index) is an ndarray
    call,         \* the last call made
    result,       \* what it gave back
    written,      \* the table the text file was written from
    file,         \* the text file's lines, each three tokens
    opened,       \* whether loadtxt opened the file
    nread         \* the lines loadtxt read

vars == <<phase, self_x0, self_x1, self_y, self_yfuncs, loop_i, y_is_array,
          call, result, written, file, opened, nread>>

grid == <<phase, self_x0, self_x1, self_y, self_yfuncs, loop_i, y_is_array>>
source == <<written, file, opened, nread>>

NoCall == [op |-> "none", x0 |-> 0, x1 |-> <<>>, extend |-> TRUE, copy |-> FALSE,
           fmt |-> ""]

Init ==
    /\ phase = "new"
    /\ self_x0 = <<>>
    /\ self_x1 = <<>>
    /\ self_y = <<>>
    /\ self_yfuncs = 0
    /\ loop_i = 0
    /\ y_is_array = FALSE
    /\ call = NoCall
    /\ result = NoResult
    /\ written = [x0 |-> <<>>, y |-> <<>>]
    /\ file = <<>>
    /\ opened = FALSE
    /\ nread = 0

(* ------------------------------------------------------------- __init__ *)
\* The constructor's effect on the object.  The loop appends one lambda per
\* row; each lambda reads the variable i when it is called, and i is left at
\* the last index by the loop.
Construct(x0, x1, y, isArray) ==
    /\ phase' = "built"
    /\ self_x0' = x0
    /\ self_x1' = x1
    /\ self_y' = y
    /\ self_yfuncs' = Len(x0)
    /\ loop_i' = Len(x0)
    /\ y_is_array' = isArray

\* Strictly increasing row keys, as the callers supply them.
Increasing(s) == \A k \in 1..(Len(s) - 1) : s[k] < s[k + 1]
X0Seqs(n) == {s \in [1..n -> Keys] : Increasing(s)}

\* build(x0, x1, y): x0 of n rows, the native x1 of m columns, y of shape n x m,
\* given as an ndarray or as nested lists.
Build(x0, m, y, isArray) ==
    /\ phase = "new"
    /\ Construct(x0, <<X1Native(m)>>, y, isArray)
    /\ call' = [NoCall EXCEPT !.op = "build"]
    /\ result' = NoResult
    /\ UNCHANGED source

BuildAny ==
    \E n \in 0..MaxRows, m \in 1..MaxCols :
        /\ n * m <= MaxCells
        /\ \E x0 \in X0Seqs(n), y \in [1..n -> [1..m -> YVals]], isArray \in BOOLEAN :
               Build(x0, m, y, isArray)

(* ------------------------------------------------------- row interpolants *)
\* numpy.interp at one point x over samples (xp, fp), xp increasing: the value at
\* the nearest edge sample outside [xp[0], xp[-1]], the sample itself on a sample,
\* and the chord between the two bracketing samples otherwise.
interp1(x, xp, fp) ==
    LET n == Len(xp) IN
    IF x < xp[1] THEN R(fp[1])
    ELSE IF x > xp[n] THEN R(fp[n])
    ELSE LET j == CHOOSE j \in 1..n : xp[j] <= x /\ (j = n \/ x < xp[j + 1]) IN
         IF x = xp[j] THEN R(fp[j])
         ELSE RAdd(R(fp[j]), Norm((fp[j + 1] - fp[j]) * (x - xp[j]), xp[j + 1] - xp[j]))

np_interp(x, xp, fp) == [e \in 1..Len(x) |-> interp1(x[e], xp, fp)]

\* The row that the k-th lambda reads when it is called: `y[i,:]`, with i looked up
\* in __init__'s scope at call time, whatever k is.
LambdaRow(k) == loop_i

\* self._yfuncs[k](x), k 1-based, x an array of x1 values.  `y[i,:]` indexes the
\* constructor's argument y with a tuple, which a list of lists refuses
\* (TypeError) and an ndarray accepts.
Yfunc(k, x) ==
    IF ~y_is_array
    THEN [kind |-> "TypeError", val |-> <<>>]
    ELSE [kind |-> "ok", val |-> np_interp(x, self_x1[1], self_y[LambdaRow(k)])]

(* -------------------------------------------------------------------- y() *)
\* 0-based element of an array, and the index -1.
At(a, i) == a[i + 1]
Last(a) == a[Len(a)]

\* `x0 in self._x0`
Contains(a, v) == \E k \in 1..Len(a) : a[k] = v

\* numpy.searchsorted(a, v), side left, a sorted: the 0-based insertion index.
searchsorted(a, v) == Cardinality({k \in 1..Len(a) : a[k] < v})

\* Two slips of the bounds check: the lower bound forgotten, and the ends of the
\* range taken as outside it.
OutOfBoundsAbove(q) == q > Last(self_x0)
OutOfBoundsInclusive(q) == q <= At(self_x0, 0) \/ q >= Last(self_x0)

\* `x0 < self._x0[0] or x0 > self._x0[-1]`
OutOfBounds(q) == q < At(self_x0, 0) \/ q > Last(self_x0)

\* `idx = self._x0.index(x0)`: self._x0 is an ndarray, which has no method index.
ExactMatch(q, x1) ==
    Raise("AttributeError", <<"'numpy.ndarray' object has no attribute 'index'">>, "exact", 0)

\* One row's values: `return self._yfuncs[k](x1)`, k 0-based.
Clamp(k, x1, br) ==
    LET r == Yfunc(k + 1, x1) IN
    IF r.kind = "ok" THEN Ok(r.val, br, 1) ELSE Raise(r.kind, <<>>, br, 1)

\* The blend of the two rows around q.
Interior(q, x1) ==
    LET i == searchsorted(self_x0, q)
        y0 == Yfunc((i - 1) + 1, x1)
        y1 == Yfunc(i + 1, x1)
        dx0 == Norm(q - At(self_x0, i - 1), At(self_x0, i) - At(self_x0, i - 1))
    IN  IF y0.kind # "ok" THEN Raise(y0.kind, <<>>, "interior", 1)
        ELSE IF y1.kind # "ok" THEN Raise(y1.kind, <<>>, "interior", 2)
        ELSE Ok([e \in 1..Len(y0.val) |->
                    RAdd(y0.val[e], RMul(dx0, RSub(y1.val[e], y0.val[e])))],
                "interior", 2)

\* y(x0, x1, extend) on the built object: q is x0, x1o is x1 as an option
\* (<<>> for None), x1 values as a 1-element array otherwise.
YEval(q, x1o, extend) ==
    IF Len(self_x0) = 0
    THEN Raise("IndexError", <<"index 0 is out of bounds">>, "bounds", 0)
    ELSE IF OutOfBounds(q) /\ ~extend
    THEN Raise("ValueError",
               <<"Requested x0 out of range", q, At(self_x0, 0), Last(self_x0)>>, "bounds", 0)
    ELSE LET x1 == IF x1o = <<>> THEN self_x1[1] ELSE x1o[1] IN
         IF Contains(self_x0, q) THEN ExactMatch(q, x1)
         ELSE IF q < At(self_x0, 0) THEN Clamp(0, x1, "below")
         ELSE IF q > Last(self_x0) THEN Clamp(Len(self_x0) - 1, x1, "above")
         ELSE Interior(q, x1)

X1Queries == {<<>>} \cup {<< <<v>> >> : v \in X1Points}

Y(q, x1o, extend) ==
    /\ phase = "built"
    /\ call' = [NoCall EXCEPT !.op = "y", !.x0 = q, !.x1 = x1o, !.extend = extend]
    /\ result' = YEval(q, x1o, extend)
    /\ UNCHANGED <<grid, source>>

YAny == \E q \in X0Queries, x1o \in X1Queries, extend \in BOOLEAN : Y(q, x1o, extend)

\* x0(copy) and x1(copy): the native arrays, or copies of them.
X0(copy) ==
    /\ phase = "built"
    /\ call' = [NoCall EXCEPT !.op = "x0", !.copy = copy]
    /\ result' = Ok(RSeq(self_x0), "", 0)
    /\ UNCHANGED <<grid, source>>

X1(copy) ==
    /\ phase = "built"
    /\ self_x1 # <<>>
    /\ call' = [NoCall EXCEPT !.op = "x1", !.copy = copy]
    /\ result' = Ok(RSeq(self_x1[1]), "", 0)
    /\ UNCHANGED <<grid, source>>

X0Any == \E copy \in BOOLEAN : X0(copy)
X1Any == \E copy \in BOOLEAN : X1(copy)

Next == BuildAny \/ YAny \/ X0Any \/ X1Any

Spec == Init /\ [][Next]_vars

(* ---------------------------------------------------------------- loadtxt *)
\* A number as the text file holds it, a sequence of decimal digits, and
\* float() of such a token.
RECURSIVE Format(_)
Format(n) == IF n < 10 THEN <<n>> ELSE Append(Format(n \div 10), n % 10)

RECURSIVE ParseFloat(_)
ParseFloat(tok) ==
    IF Len(tok) = 1 THEN tok[1]
    ELSE 10 * ParseFloat(SubSeq(tok, 1, Len(tok) - 1)) + tok[Len(tok)]

\* The file of a table, row-major, one line `x0 x1 y` per cell; row i holds the
\* samples y[i] at the first Len(y[i]) native x1 values.
RowLines(k, row) == [j \in 1..Len(row) |->
                        <<Format(k), Format(X1Native(Len(row))[j]), Format(row[j])>>]

RECURSIVE WriteTable(_, _)
WriteTable(x0, y) ==
    IF Len(x0) = 0 THEN <<>>
    ELSE RowLines(x0[1], y[1]) \o WriteTable(Tail(x0), Tail(y))

\* A slip of the format check: every format let through.
AnyFormat(fmt) == TRUE

\* `if fmt != 'singleval': raise ValueError(...)`
FormatSupported(fmt) == fmt = "singleval"

\* The locals of loadtxt before the loop.
LoopStart == [x0 |-> <<>>, x1 |-> <<>>, y |-> <<>>,
              x0_current |-> NoneF, x1_current |-> <<>>, y1_current |-> <<>>]

\* One pass of `for line in open(filename)`.
LoopBody(st, line) ==
    LET x0_tmp == ParseFloat(line[1])
        x1_tmp == ParseFloat(line[2])
        y_tmp == ParseFloat(line[3])
        s1 == IF st.x0_current = NoneF THEN [st EXCEPT !.x0_current = x0_tmp] ELSE st
        s2 == IF x0_tmp # s1.x0_current
              THEN [s1 EXCEPT !.x0 = Append(s1.x0, s1.x0_current),
                              !.x1 = IF s1.x1 = <<>> THEN <<s1.x1_current>> ELSE s1.x1,
                              !.y = Append(s1.y, s1.y1_current),
                              !.x0_current = x0_tmp,
                              !.x1_current = <<>>,
                              !.y1_current = <<>>]
              ELSE s1
    IN  [s2 EXCEPT !.x1_current = Append(s2.x1_current, x1_tmp),
                   !.y1_current = Append(s2.y1_current, y_tmp)]

RECURSIVE Loop(_, _)
Loop(st, lines) == IF Len(lines) = 0 THEN st ELSE Loop(LoopBody(st, lines[1]), Tail(lines))

\* `x0.append(x0_current); y.append(y1_current)` after the loop.
LoopEnd(st) == [st EXCEPT !.x0 = Append(st.x0, st.x0_current),
                          !.y = Append(st.y, st.y1_current)]

\* Rows of unequal lengths: numpy.asarray(y) makes a 1-D array of lists of them, or,
\* in the releases that refuse ragged input, raises ValueError.
Ragged(y) == \E a, b \in 1..Len(y) : Len(y[a]) # Len(y[b])

\* loadtxt(filename, fmt) on the file written from the table (x0, y); strict says
\* whether the installed numpy refuses ragged input.
Loadtxt(x0, y, fmt, strict) ==
    /\ phase = "new"
    /\ written' = [x0 |-> x0, y |-> y]
    /\ file' = WriteTable(x0, y)
    /\ call' = [NoCall EXCEPT !.op = "loadtxt", !.fmt = fmt]
    /\ IF ~FormatSupported(fmt)
       THEN /\ result' = Raise("ValueError", <<"Requested format not implemented.", fmt>>, "", 0)
            /\ phase' = "failed"
            /\ opened' = FALSE
            /\ nread' = 0
            /\ UNCHANGED <<self_x0, self_x1, self_y, self_yfuncs, loop_i, y_is_array>>
       ELSE LET st == LoopEnd(Loop(LoopStart, file')) IN
            /\ opened' = TRUE
            /\ nread' = Len(file')
            /\ IF Ragged(st.y) /\ strict
               THEN /\ result' = Raise("ValueError", <<"inhomogeneous shape">>, "", 0)
                    /\ phase' = "failed"
                    /\ UNCHANGED <<self_x0, self_x1, self_y, self_yfuncs, loop_i, y_is_array>>
               ELSE /\ result' = Ok(<<>>, "", 0)
                    /\ Construct(st.x0, st.x1, st.y, FALSE)

\* The tables a file is written from: any keys, in any order, and rows of one to
\* MaxCols samples each, MaxLines lines at most in all.
RowsUpTo == UNION {[1..m -> YVals] : m \in 1..MaxCols}

RECURSIVE Cells(_)
Cells(y) == IF Len(y) = 0 THEN 0 ELSE Len(y[1]) + Cells(Tail(y))

LoadtxtAny ==
    \E n \in 0..MaxRows :
        \E y \in {t \in [1..n -> RowsUpTo] : Cells(t) <= MaxLines} :
            \E x0 \in [1..n -> Keys], fmt \in Formats, strict \in BOOLEAN :
                Loadtxt(x0, y, fmt, strict)

NextLoad == LoadtxtAny

SpecLoad == Init /\ [][NextLoad]_vars

(* ------------------------------------------------------------ properties *)
\* The state right after a call of y() on a grid of at least one row.
AfterY == phase = "built" /\ call.op = "y" /\ Len(self_x0) > 0

\* y(q, x1o, extend=True), the call whose outcome other calls are compared to.
ValueAt(q, x1o) == YEval(q, x1o, TRUE)

\* The x1 array a call evaluates at: the native one when none is given.
X1Of(x1o) == IF x1o = <<>> THEN self_x1[1] ELSE x1o[1]

\* C1 -- Exact-match identity: on a grid built from strictly increasing x0, a
\* call y(x0[i]) with x1 omitted returns normally, and returns y[i] element-wise.
C1_ExactMatchIdentity ==
    (AfterY /\ call.x1 = <<>>) =>
        \A i \in 1..Len(self_x0) :
            call.x0 = self_x0[i] => result.kind = "ok" /\ result.val = RSeq(self_y[i])

\* C2 -- Interior linearity: for x0[i-1] < q < x0[i], y(q) is, element-wise,
\* y(x0[i-1]) + f * (y(x0[i]) - y(x0[i-1])) with f = (q - x0[i-1]) / (x0[i] - x0[i-1]).
C2_InteriorLinearity ==
    AfterY =>
        \A i \in 2..Len(self_x0) :
            (self_x0[i - 1] < call.x0 /\ call.x0 < self_x0[i]) =>
                LET lo == ValueAt(self_x0[i - 1], call.x1)
                    hi == ValueAt(self_x0[i], call.x1)
                    f == Norm(call.x0 - self_x0[i - 1], self_x0[i] - self_x0[i - 1])
                IN  /\ result.kind = "ok"
                    /\ lo.kind = "ok"
                    /\ hi.kind = "ok"
                    /\ result.val = [e \in 1..Len(lo.val) |->
                                        RAdd(lo.val[e], RMul(f, RSub(hi.val[e], lo.val[e])))]

\* C3 -- Clamping: with extend=True, a query below x0[0] gives what y(x0[0]) gives,
\* the first row's values at the queried x1, and a query above x0[N-1] gives what
\* y(x0[N-1]) gives, the last row's values.
C3_Clamping ==
    (AfterY /\ call.extend) =>
        LET n == Len(self_x0)
            xp == self_x1[1]
            x1 == X1Of(call.x1)
        IN  /\ call.x0 < self_x0[1] =>
                /\ result.kind = "ok"
                /\ result.val = np_interp(x1, xp, self_y[1])
                /\ result.val = ValueAt(self_x0[1], call.x1).val
            /\ call.x0 > self_x0[n] =>
                /\ result.kind = "ok"
                /\ result.val = np_interp(x1, xp, self_y[n])
                /\ result.val = ValueAt(self_x0[n], call.x1).val

\* C4 -- Out-of-range rejection: with extend=False, a query strictly below x0[0] or
\* strictly above x0[N-1] raises the out-of-range ValueError, whatever x1 is given,
\* returns no values, and no row interpolant has been called.
C4_OutOfRangeRejection ==
    (AfterY /\ ~call.extend
        /\ (call.x0 < self_x0[1] \/ call.x0 > self_x0[Len(self_x0)])) =>
        /\ result.kind = "ValueError"
        /\ result.msg = <<"Requested x0 out of range", call.x0, self_x0[1],
                          self_x0[Len(self_x0)]>>
        /\ result.val = <<>>
        /\ result.evals = 0

\* C4, reached: a query below a two-row grid, with an x1 array given and
\* extend=False, was rejected.
C4_Witness ==
    /\ AfterY /\ ~call.extend
    /\ Len(self_x0) = 2
    /\ call.x0 < self_x0[1]
    /\ call.x1 # <<>>
    /\ result.kind = "ValueError"

\* A written table that is a grid: a row at least, distinct keys, rows of one length.
IsGrid(t) ==
    /\ Len(t.x0) >= 1
    /\ \A a, b \in 1..Len(t.x0) : a # b => t.x0[a] # t.x0[b]
    /\ \A a \in 1..Len(t.y) : Len(t.y[a]) = Len(t.y[1])

\* C5 -- Round trip: a grid of N >= 1 rows and M >= 1 columns with distinct keys,
\* written as lines `x0 x1 y` and loaded as "singleval", comes back with the same
\* x0, x1 and y.
C5_RoundTrip ==
    (call.op = "loadtxt" /\ call.fmt = "singleval" /\ IsGrid(written)) =>
        /\ phase = "built"
        /\ self_x0 = written.x0
        /\ self_x1 = <<X1Native(Len(written.y[1]))>>
        /\ self_y = written.y

\* C6 -- Unsupported format: loadtxt with any format but "singleval" raises the
\* ValueError naming the format, without opening the file or reading a line, and
\* builds no grid.
C6_UnsupportedFormat ==
    (call.op = "loadtxt" /\ call.fmt # "singleval") =>
        /\ result.kind = "ValueError"
        /\ result.msg = <<"Requested format not implemented.", call.fmt>>
        /\ ~opened
        /\ nread = 0
        /\ phase # "built"
        /\ self_yfuncs = 0

\* C6, reached: a file of several lines was asked for in the format "bogus" and
\* refused.
C6_Witness ==
    /\ call.op = "loadtxt"
    /\ call.fmt = "bogus"
    /\ Len(file) >= 2
    /\ result.kind = "ValueError"
    /\ phase = "failed"

\* C7 -- Flat extrapolation along x1: every row interpolant, asked for an x1 below
\* the first sample, gives that row's value at the first sample, and asked for an
\* x1 above the last sample, gives that row's value at the last sample; it raises
\* nothing.
C7_FlatExtrapolation ==
    phase = "built" =>
        \A k \in 1..self_yfuncs, v \in X1Points :
            LET xp == self_x1[1]
                r == Yfunc(k, <<v>>)
            IN  /\ v < xp[1] => r.kind = "ok" /\ r.val = <<R(self_y[k][1])>>
                /\ v > xp[Len(xp)] => r.kind = "ok" /\ r.val = <<R(self_y[k][Len(xp)])>>

\* C8 -- Per-row binding: whenever the i-th row interpolant evaluates, it evaluates
\* against row i's own values: at the native x1 it returns y[i].
C8_PerRowBinding ==
    phase = "built" =>
        \A k \in 1..self_yfuncs :
            LET r == Yfunc(k, self_x1[1])
            IN  r.kind = "ok" => r.val = RSeq(self_y[k])

\* The contiguous runs of equal x0 in a file.
Runs(lines) ==
    Cardinality({k \in 1..Len(lines) :
                    k = 1 \/ ParseFloat(lines[k][1]) # ParseFloat(lines[k - 1][1])})

\* C9 -- Shape after load: the grid loaded from a non-empty file has as many x0, as
\* many rows of y and as many row interpolants as the file has runs of equal x0, and
\* an x1 sequence (never None) as long as every row.  Stated here for the files whose
\* runs are all as long as the first, the case loadtxt's docstring assumes.
C9_ShapeAfterLoad ==
    (call.op = "loadtxt" /\ phase = "built" /\ Len(file) > 0 /\ ~Ragged(self_y)) =>
        /\ Len(self_x0) = Runs(file)
        /\ Len(self_y) = Runs(file)
        /\ self_yfuncs = Runs(file)
        /\ self_x1 # <<>>
        /\ \A i \in 1..Len(self_y) : Len(self_x1[1]) = Len(self_y[i])

\* C10 -- extend only gates the error: with extend=False, a query inside
\* [x0[0], x0[N-1]], ends included, does not raise the out-of-range error and ends
\* as the same call with extend=True does; and no call with extend=False ends in
\* the below-range or the above-range return.
C10_ExtendOnlyGatesError ==
    (AfterY /\ ~call.extend) =>
        /\ (self_x0[1] <= call.x0 /\ call.x0 <= self_x0[Len(self_x0)]) =>
               /\ ~(result.kind = "ValueError" /\ result.branch = "bounds")
               /\ result = ValueAt(call.x0, call.x1)
        /\ result.branch \notin {"below", "above"}

\* C10, reached: a query on the last key of a two-row grid, with extend=False, got
\* past the bounds check.
C10_Witness ==
    /\ AfterY /\ ~call.extend
    /\ Len(self_x0) = 2
    /\ call.x0 = self_x0[2]
    /\ result.branch = "exact"

====
